---- MODULE Spec2Model ----
(***************************************************************************)
(* Link resolution, cache and catalog of the Universal OS installer        *)
(* (src/main.py): LinkManager (cache file, lock, resolver fan-out),        *)
(* OSInstaller (catalog merge, hourly updater thread) and main (one        *)
(* OSInstaller per run of the script).                                     *)
(*                                                                         *)
(* Time is counted in hours.  A URL is a record [kind, of]: kind says      *)
(* where the string came from, of names the release it points to.          *)
(***************************************************************************)
EXTENDS Integers, Sequences, FiniteSets, TLC

\* ------------------------------------------------------------- bounds
\* Hours the clock may advance.
MaxTime == 2
\* Runs of main(), each constructing one OSInstaller.
MaxInstallers == 2
\* Index pages that may fail independently in one state of the network.
MaxDown == 1
\* Bytes a response body delivers at most, and bytes in one chunk of
\* iter_content (chunk_size, scaled down).
MaxBody == 2
ChunkSize == 1
\* Bytes in a file to hash at most, and bytes in one block of f.read
\* (4096, scaled down).
MaxLen == 2
BlockSize == 1
\* Anchors an index page holds at most, and characters in the label of a
\* directory of a listing.
MaxAnchors == 2
MaxWidth == 2

\* ------------------------------------------------- program constants
\* cache_duration = timedelta(hours=24)
CacheHours == 24
\* time.sleep(3600)
SleepHours == 1
\* int(content_length) > 100000000
MinIsoBytes == 100000000

\* -------------------------------------------------------------- values
None == [kind |-> "None", of |-> ""]
EmptyStr == [kind |-> "", of |-> ""]
\* The key is not in the dict.
Absent == [kind |-> "absent", of |-> ""]
\* JSON null.
Null == [kind |-> "null", of |-> ""]
\* An exception leaving a resolver.
Raised == [kind |-> "raise", of |-> ""]
\* A URL scraped from an index page now, and one scraped by an earlier process.
Iso(k) == [kind |-> "iso", of |-> k]
Old(k) == [kind |-> "old", of |-> k]
\* A URL written in the source: a pre-seeded catalog URL, a download page.
Seed(r) == [kind |-> "seed", of |-> r]
Page(s) == [kind |-> "page", of |-> s]

\* Python truthiness of a str-or-None value (if link:).
Truthy(v) == v \notin {None, EmptyStr, Absent, Null}

\* The resolution keys, in the order update_links fills them.
Strategies ==
    << "ubuntu_24.04", "ubuntu_22.04", "fedora_40", "fedora_39",
       "debian_net", "debian_dvd",
       "mint_21.3_cinnamon", "mint_21.3_mate", "mint_21.3_xfce",
       "elementary_os", "popos_22.04", "popos_22.04_nvidia",
       "manjaro_kde", "manjaro_gnome", "manjaro_xfce",
       "kali_live", "kali_installer", "zorin_core", "zorin_lite",
       "arch_latest" >>

Keys == {Strategies[i] : i \in 1..Len(Strategies)}

\* A dict from resolution keys to URLs: a total function, Absent where the
\* key is not in the dict.
EmptyLinks == [k \in Keys |-> Absent]
Has(links, k) == links[k] # Absent
\* Python truthiness of a dict (if cached_links:).
TruthyDict(links) == \E k \in Keys : Has(links, k)

\* ------------------------------------------------------------- network
\* What the index page(s) of a strategy answer: a page with the matching
\* anchor, a page without it (or a non-200 answer to a HEAD), or an
\* exception of the requests library.
Failures == {"nomatch", "neterr"}
Outcomes == {"ok"} \cup Failures
\* The strategies that issue HTTP requests (get_zorin_link issues none).
Sites == Keys \ {"zorin_core", "zorin_lite"}
AllOk == [k \in Sites |-> "ok"]

RECURSIVE DownBy(_)
DownBy(n) ==
    IF n = 0 THEN {AllOk}
    ELSE LET P == DownBy(n - 1)
         IN  P \cup {[p EXCEPT ![k] = o] : p \in P, k \in Sites, o \in Failures}

\* The states of the network: at most MaxDown strategies failing, or all
\* failing alike.
NetStates == DownBy(MaxDown) \cup {[k \in Sites |-> o] : o \in Failures}

\* ------------------------------------------------------------- sources
\* The requests get_arch_link may issue, in the order of its code: the index
\* of the primary mirror, the directory of its latest version, and the two
\* fallback mirrors.
ArchRequests ==
    << "archlinux.c3sl.ufpr.br/iso/", "archlinux.c3sl.ufpr.br/iso/<latest>/",
       "mirror.rackspace.com", "mirrors.kernel.org" >>

\* What a resolver with several sources did: the request whose answer gave
\* the URL it returned (0: it returned None), and the requests it issued.
Tried(found, tried) == [found |-> found, tried |-> tried]

\* for mirror in fallback_mirrors, from request i on: an exception of a
\* mirror is caught in the loop (continue), a page without the anchor goes
\* on to the next mirror, and the end of the loop returns None.
RECURSIVE ArchFallback(_, _, _)
ArchFallback(i, a, tried) ==
    IF i > Len(ArchRequests) THEN Tried(0, tried)
    ELSE IF a[i] = "ok" THEN Tried(i, Append(tried, ArchRequests[i]))
    ELSE ArchFallback(i + 1, a, Append(tried, ArchRequests[i]))

\* get_arch_link when its requests answer a[1..4]: an exception of either
\* request to the primary mirror reaches the outer except, which returns
\* None; a primary without a version directory, or without the .iso anchor
\* in it, goes on to the fallback mirrors.
ArchSources(a) ==
    IF a[1] = "neterr" THEN Tried(0, <<ArchRequests[1]>>)
    ELSE IF a[1] = "ok"
    THEN IF a[2] = "neterr" THEN Tried(0, SubSeq(ArchRequests, 1, 2))
         ELSE IF a[2] = "ok" THEN Tried(2, SubSeq(ArchRequests, 1, 2))
         ELSE ArchFallback(3, a, SubSeq(ArchRequests, 1, 2))
    ELSE ArchFallback(3, a, <<ArchRequests[1]>>)

\* The HEAD requests of get_elementary_link, in the order of its code.
ElementaryRequests == <<"objects.githubusercontent.com", "sgp1.dl.elementary.io">>
\* found = DownloadPage: both answered non-200 and the resolver returned
\* "https://elementary.io/download".
DownloadPage == Len(ElementaryRequests) + 1

\* get_elementary_link when its HEAD requests answer e[1..2] ("ok": 200,
\* "nomatch": another status): an exception of either reaches the except,
\* which returns None.
ElementarySources(e) ==
    IF e[1] = "neterr" THEN Tried(0, <<ElementaryRequests[1]>>)
    ELSE IF e[1] = "ok" THEN Tried(1, <<ElementaryRequests[1]>>)
    ELSE IF e[2] = "neterr" THEN Tried(0, ElementaryRequests)
    ELSE IF e[2] = "ok" THEN Tried(2, ElementaryRequests)
    ELSE Tried(DownloadPage, ElementaryRequests)

\* ------------------------------------------------------------ listings
\* The answer to the GET of an index page: an exception of the requests
\* library, or a status and the anchors of the body that pass the resolver's
\* filter, in document order.
IndexPage(err, status, anchors) ==
    [err |-> err, status |-> status, anchors |-> anchors]
IndexStatuses == {200, 404}

\* The sequences of at most n elements of S.
RECURSIVE ListsOf(_, _)
ListsOf(S, n) ==
    IF n = 0 THEN {<<>>}
    ELSE LET P == ListsOf(S, n - 1)
         IN  P \cup {Append(c, x) : c \in {q \in P : Len(q) = n - 1}, x \in S}

IndexPages(anchors) ==
    {IndexPage(TRUE, 0, <<>>)} \cup
    {IndexPage(FALSE, st, p) : st \in IndexStatuses, p \in anchors}

\* The label of a directory of a listing (a build number, a release date):
\* the characters of the href, each a digit.
Digits == {1, 9}
Labels == ListsOf(Digits, MaxWidth) \ {<<>>}
LabelLists == ListsOf(Labels, MaxAnchors)

\* int(href)
RECURSIVE IntOf(_)
IntOf(l) ==
    IF l = <<>> THEN 0
    ELSE 10 * IntOf(SubSeq(l, 1, Len(l) - 1)) + l[Len(l)]

\* a < b on str: the first character that differs decides, and a proper
\* prefix is the smaller.
RECURSIVE StrLess(_, _)
StrLess(a, b) ==
    IF b = <<>> THEN FALSE
    ELSE IF a = <<>> THEN TRUE
    ELSE IF a[1] # b[1] THEN a[1] < b[1]
    ELSE StrLess(Tail(a), Tail(b))

\* The loop of get_popos_link with its hrefs compared as str.
RECURSIVE LatestBuildAsStr(_, _)
LatestBuildAsStr(hrefs, latest_build) ==
    IF hrefs = <<>> THEN latest_build
    ELSE LatestBuildAsStr(Tail(hrefs),
            IF latest_build = <<>> \/ StrLess(latest_build, Head(hrefs))
            THEN Head(hrefs) ELSE latest_build)

\* for link in soup.find_all('a') of get_popos_link, over the hrefs that are
\* digits: if not latest_build or int(href) > int(latest_build).  <<>> is
\* None.
RECURSIVE LatestBuild(_, _)
LatestBuild(hrefs, latest_build) ==
    IF hrefs = <<>> THEN latest_build
    ELSE LatestBuild(Tail(hrefs),
            IF latest_build = <<>> \/ IntOf(Head(hrefs)) > IntOf(latest_build)
            THEN Head(hrefs) ELSE latest_build)

\* for link in soup.find_all('a') of get_arch_link, over the hrefs that match
\* the date pattern: if not latest_version or href > latest_version.
RECURSIVE LatestVersion(_, _)
LatestVersion(hrefs, latest_version) ==
    IF hrefs = <<>> THEN latest_version
    ELSE LatestVersion(Tail(hrefs),
            IF latest_version = <<>> \/ StrLess(latest_version, Head(hrefs))
            THEN Head(hrefs) ELSE latest_version)

\* What a resolver of a directory listing did: the label it chose (<<>>:
\* none) and whether it returned a URL (else None).
Chosen(latest, url) == [latest |-> latest, url |-> url]

\* get_popos_link when the index answers a and the HEAD of final_url answers
\* h ("ok": 200, "nomatch": another status): the index is read only if its
\* status is 200, and every path but the return of final_url returns None
\* (the except clause, or the end of the function).
PoposLink(a, h) ==
    IF a.err \/ a.status # 200 THEN Chosen(<<>>, FALSE)
    ELSE LET latest_build == LatestBuild(a.anchors, <<>>)
         IN  Chosen(latest_build, latest_build # <<>> /\ h = "ok")

\* An anchor of a file listing: 0 if its href does not match the pattern of
\* the resolver, else the number of the href it holds.
Hrefs == 0..MaxAnchors
FileLists == ListsOf(Hrefs, MaxAnchors)

\* The loop without its return: the last matching anchor wins.
RECURSIVE FirstMatchOverwritten(_)
FirstMatchOverwritten(anchors) ==
    IF anchors = <<>> THEN 0
    ELSE IF anchors[Len(anchors)] # 0 THEN anchors[Len(anchors)]
    ELSE FirstMatchOverwritten(SubSeq(anchors, 1, Len(anchors) - 1))

\* for link in soup.find_all('a'): if <pattern>: return urljoin(...), and
\* None (0) at the end of the loop.
RECURSIVE FirstMatch(_)
FirstMatch(anchors) ==
    IF anchors = <<>> THEN 0
    ELSE IF Head(anchors) # 0 THEN Head(anchors)
    ELSE FirstMatch(Tail(anchors))

\* get_manjaro_link: latest = urljoin(...) for every matching anchor, and
\* return latest after the loop.
RECURSIVE LastMatch(_, _)
LastMatch(anchors, latest) ==
    IF anchors = <<>> THEN latest
    ELSE LastMatch(Tail(anchors),
                   IF Head(anchors) # 0 THEN Head(anchors) ELSE latest)

\* The resolvers that read one listing, and what each returns when the
\* listing answers a: none of them looks at the status.
ListingResolvers ==
    {"get_ubuntu_link", "get_fedora_link", "get_debian_link",
     "get_mint_link", "get_manjaro_link", "get_kali_link"}
ListingLink(f, a) ==
    IF a.err THEN 0
    ELSE IF f = "get_manjaro_link" THEN LastMatch(a.anchors, 0)
    ELSE FirstMatch(a.anchors)

\* ----------------------------------------------------------- resolvers
\* Each get_*_link(k, o): the value the resolver returns for key k when its
\* index answers o.  A resolver whose loop finds no anchor falls off its end
\* and returns None; its except clause returns None.
get_ubuntu_link(k, o) ==
    IF o = "neterr" THEN None ELSE IF o = "ok" THEN Iso(k) ELSE None

\* get_fedora_link without its try/except: the exception leaves it.
get_fedora_link_unguarded(k, o) ==
    IF o = "neterr" THEN Raised ELSE IF o = "ok" THEN Iso(k) ELSE None

get_fedora_link(k, o) ==
    IF o = "neterr" THEN None ELSE IF o = "ok" THEN Iso(k) ELSE None

get_debian_link(k, o) ==
    IF o = "neterr" THEN None ELSE IF o = "ok" THEN Iso(k) ELSE None

get_mint_link(k, o) ==
    IF o = "neterr" THEN None ELSE IF o = "ok" THEN Iso(k) ELSE None

\* Both HEAD requests answer o; both answering non-200 falls back to the
\* download page.
get_elementary_link(k, o) ==
    LET r == ElementarySources([i \in 1..Len(ElementaryRequests) |-> o])
    IN  IF r.found = 0 THEN None
        ELSE IF r.found = DownloadPage THEN Page("elementary.io") ELSE Iso(k)

get_popos_link(k, o) ==
    IF o = "neterr" THEN None ELSE IF o = "ok" THEN Iso(k) ELSE None

get_manjaro_link(k, o) ==
    IF o = "neterr" THEN None ELSE IF o = "ok" THEN Iso(k) ELSE None

get_kali_link(k, o) ==
    IF o = "neterr" THEN None ELSE IF o = "ok" THEN Iso(k) ELSE None

\* No request: the edition's page on zorinos.com.
get_zorin_link(k) == Page("zorinos.com")

\* Every request of the resolver answers o.
get_arch_link(k, o) ==
    LET r == ArchSources([i \in 1..Len(ArchRequests) |-> o])
    IN  IF r.found = 0 THEN None ELSE Iso(k)

\* The call update_links makes for key k in network state n.
Resolve(k, n) ==
    CASE k \in {"ubuntu_24.04", "ubuntu_22.04"} -> get_ubuntu_link(k, n[k])
      [] k \in {"fedora_40", "fedora_39"} -> get_fedora_link(k, n[k])
      [] k \in {"debian_net", "debian_dvd"} -> get_debian_link(k, n[k])
      [] k \in {"mint_21.3_cinnamon", "mint_21.3_mate", "mint_21.3_xfce"} ->
            get_mint_link(k, n[k])
      [] k = "elementary_os" -> get_elementary_link(k, n[k])
      [] k \in {"popos_22.04", "popos_22.04_nvidia"} -> get_popos_link(k, n[k])
      [] k \in {"manjaro_kde", "manjaro_gnome", "manjaro_xfce"} ->
            get_manjaro_link(k, n[k])
      [] k \in {"kali_live", "kali_installer"} -> get_kali_link(k, n[k])
      [] k \in {"zorin_core", "zorin_lite"} -> get_zorin_link(k)
      [] k = "arch_latest" -> get_arch_link(k, n[k])

\* How update_links stores the result v of the strategy of key k:
\* updated_links.update(debian_links) stores both Debian results whatever
\* they are, every other result is stored if link:.
Store(links, k, v) ==
    IF k \in {"debian_net", "debian_dvd"} \/ Truthy(v)
    THEN [links EXCEPT ![k] = v]
    ELSE links

\* The fan-out of update_links from strategy i on: the dict built, the
\* number of strategies invoked, and whether one raised (which ends it).
RECURSIVE FanOut(_, _, _)
FanOut(i, links, n) ==
    IF i > Len(Strategies)
    THEN [links |-> links, invoked |-> i - 1, raised |-> FALSE]
    ELSE LET k == Strategies[i]
             v == Resolve(k, n)
         IN  IF v = Raised
             THEN [links |-> links, invoked |-> i, raised |-> TRUE]
             ELSE FanOut(i + 1, Store(links, k, v), n)

UpdatedLinks(n) == FanOut(1, EmptyLinks, n)

\* ---------------------------------------------------------- cache file
\* json.dump and json.load of the links dict: None is written as null.
ToJson(links) == [k \in Keys |-> IF links[k] = None THEN Null ELSE links[k]]
FromJson(links) == [k \in Keys |-> IF links[k] = Null THEN None ELSE links[k]]

\* The file os_links_cache.json: what it holds (kind), and for a JSON object
\* its timestamp and links.
FileOf(kind, ts, links) == [kind |-> kind, ts |-> ts, links |-> links]
\* open(cache_file, 'w') has truncated the file: no JSON document.
Truncated == FileOf("invalid_json", 0, EmptyLinks)

\* Fresh with the record still served at the age of exactly 24 hours.
FreshAtTTL(ts, t) == ts + CacheHours >= t

\* timestamp + cache_duration > now
Fresh(ts, t) == ts + CacheHours > t

\* load_cache: the links (tag "links"), None (tag "none") or an exception
\* that is not one of FileNotFoundError, JSONDecodeError, KeyError.
Loaded(tag, links) == [tag |-> tag, links |-> links]
load_cache(f, t) ==
    CASE f.kind = "absent" -> Loaded("none", EmptyLinks)
      [] f.kind = "unreadable" -> Loaded("raise", EmptyLinks)
      [] f.kind = "invalid_json" -> Loaded("none", EmptyLinks)
      [] f.kind = "not_object" -> Loaded("raise", EmptyLinks)
      [] f.kind = "no_timestamp" -> Loaded("none", EmptyLinks)
      [] f.kind = "bad_timestamp" -> Loaded("raise", EmptyLinks)
      [] f.kind = "no_links" -> Loaded("none", EmptyLinks)
      [] f.kind = "ok" ->
            IF Fresh(f.ts, t) THEN Loaded("links", FromJson(f.links))
            ELSE Loaded("none", EmptyLinks)

\* if cached_links: return cached_links
CacheHit(r) == r.tag = "links" /\ TruthyDict(r.links)

\* save_cache: the document json.dump writes at time t.
save_cache(links, t) == FileOf("ok", t, ToJson(links))

\* ------------------------------------------------------------- catalog
\* The releases of os_data, "<os_name>/<version>".
Releases ==
    { "Ubuntu/24.04 LTS", "Ubuntu/22.04 LTS",
      "Linux Mint/21.3 Cinnamon", "Linux Mint/21.3 MATE", "Linux Mint/21.3 Xfce",
      "Pop!_OS/22.04 LTS", "Pop!_OS/22.04 LTS NVIDIA",
      "Fedora/Fedora 40", "Fedora/Fedora 39",
      "Debian/12.5.0 NET", "Debian/12.5.0 DVD",
      "Manjaro/KDE", "Manjaro/GNOME", "Manjaro/XFCE",
      "Zorin OS/17 Core", "Zorin OS/17 Lite",
      "elementary OS/7.1 Horus",
      "Kali Linux/Latest Live", "Kali Linux/Latest Installer",
      "Windows/Windows 11", "Windows/Windows 10",
      "Arch Linux/Latest Release" }

\* The releases whose url is written in the source.
PreSeeded ==
    { "Linux Mint/21.3 Cinnamon", "Linux Mint/21.3 MATE", "Linux Mint/21.3 Xfce",
      "Windows/Windows 11", "Windows/Windows 10", "Arch Linux/Latest Release" }

\* os_data as OSInstaller.__init__ writes it, before its first update_links.
InitOsData ==
    [r \in Releases |->
        IF r \in {"Zorin OS/17 Core", "Zorin OS/17 Lite"} THEN Page("zorinos.com")
        ELSE IF r \in PreSeeded THEN Seed(r)
        ELSE EmptyStr]

\* The if "<key>" in links: lines of OSInstaller.update_links, <<key, release>>.
MergeTable ==
    { <<"ubuntu_24.04", "Ubuntu/24.04 LTS">>,
      <<"ubuntu_22.04", "Ubuntu/22.04 LTS">>,
      <<"fedora_40", "Fedora/Fedora 40">>,
      <<"debian_net", "Debian/12.5.0 NET">>,
      <<"popos_22.04", "Pop!_OS/22.04 LTS">>,
      <<"popos_22.04_nvidia", "Pop!_OS/22.04 LTS NVIDIA">>,
      <<"manjaro_kde", "Manjaro/KDE">>,
      <<"manjaro_gnome", "Manjaro/GNOME">>,
      <<"manjaro_xfce", "Manjaro/XFCE">>,
      <<"kali_live", "Kali Linux/Latest Live">>,
      <<"kali_installer", "Kali Linux/Latest Installer">>,
      <<"elementary_os", "elementary OS/7.1 Horus">>,
      <<"arch_latest", "Arch Linux/Latest Release">> }

\* OSInstaller.update_links with the line of "ubuntu_22.04" reading the url
\* the catalog had for 24.04 LTS before the merge.
MergeLinksShifted(os, links) ==
    [r \in Releases |->
        IF r = "Ubuntu/22.04 LTS" /\ Has(links, "ubuntu_22.04")
        THEN os["Ubuntu/24.04 LTS"]
        ELSE IF \E m \in MergeTable : m[2] = r /\ Has(links, m[1])
        THEN LET m == CHOOSE m \in MergeTable : m[2] = r /\ Has(links, m[1])
             IN  links[m[1]]
        ELSE os[r]]

\* OSInstaller.update_links after the call of link_manager.update_links:
\* every release whose key is in links takes the value links has for it.
MergeLinks(os, links) ==
    [r \in Releases |->
        IF \E m \in MergeTable : m[2] = r /\ Has(links, m[1])
        THEN LET m == CHOOSE m \in MergeTable : m[2] = r /\ Has(links, m[1])
             IN  links[m[1]]
        ELSE os[r]]

\* ---------------------------------------------------------- exceptions
\* The exception classes the downloader and the verifiers can meet;
\* RequestException is the base class of those of the requests library.
RequestException == {"ConnectionError", "HTTPError", "ChunkedEncodingError"}
Exception ==
    RequestException \cup {"ValueError", "OSError", "StreamlitAPIException"}
\* No exception.
NoExc == ""

\* What a call gives its caller: True, False, or the exception that left it;
\* verify_download_link returns a reason with it.
NoReason == [text |-> "", code |-> 0]
Returned(v, reason) == [ok |-> v, reason |-> reason]
Propagated(e) == [ok |-> "raise", reason |-> [text |-> e, code |-> 0]]
True == Returned("True", NoReason)
False == Returned("False", NoReason)
NoResult == Returned("", NoReason)

\* ------------------------------------------------------------- headers
\* A content-length header: absent, a decimal number, or text that int()
\* rejects.
NoHeader == [kind |-> "absent", n |-> 0]
BadHeader == [kind |-> "bad", n |-> 0]
NumHeader(n) == [kind |-> "num", n |-> n]

\* int(response.headers.get('content-length', 0)): the number, 0 for an
\* absent header, ValueError for text that is not a number.
content_length_or_one(h) ==
    CASE h.kind = "absent" -> [exc |-> NoExc, n |-> 1]
      [] h.kind = "num" -> [exc |-> NoExc, n |-> h.n]
      [] h.kind = "bad" -> [exc |-> "ValueError", n |-> 0]

content_length(h) ==
    CASE h.kind = "absent" -> [exc |-> NoExc, n |-> 0]
      [] h.kind = "num" -> [exc |-> NoExc, n |-> h.n]
      [] h.kind = "bad" -> [exc |-> "ValueError", n |-> 0]

\* The final status codes a server answers with (a 3xx answer without a
\* Location header is not followed).
Statuses == {200, 300, 404, 500}

\* response.raise_for_status(): HTTPError for 4xx and 5xx.
raise_for_status(status) ==
    IF 400 <= status /\ status < 600 THEN "HTTPError" ELSE NoExc

\* The except clauses of download_os: what the call returns when e is
\* raised inside its try.
download_os_except(e) ==
    IF e \in RequestException THEN False
    ELSE IF e \in Exception THEN False
    ELSE Propagated(e)

Min(a, b) == IF a < b THEN a ELSE b

\* ------------------------------------------------------------ checksum
\* A string of checksums is a sequence of tokens: the prefix sha256: (up:
\* written SHA256:), three dots, and the hex digest of a content (up: its
\* letters written in upper case).
PrefixTok(up) == [t |-> "sha256:", of |-> <<>>, up |-> up]
DotsTok == [t |-> "...", of |-> <<>>, up |-> FALSE]
HexTok(c, up) == [t |-> "hex", of |-> c, up |-> up]

\* The placeholder of the catalog, "sha256:...".
Sentinel == <<PrefixTok(FALSE), DotsTok>>

\* str.lower() without the folding of case.
NoLower(str) == str

\* str.lower()
Lower(str) == [i \in DOMAIN str |-> [str[i] EXCEPT !.up = FALSE]]

\* expected_checksum.replace('sha256:', ''): every occurrence of the text
\* sha256:, as written, is removed.
IsLowerPrefix(tok) == tok = PrefixTok(FALSE)
IsKept(tok) == ~IsLowerPrefix(tok)
StripPrefix(str) == SelectSeq(str, IsKept)

\* The contents of a file: the sequences of at most MaxLen bytes.
Bytes == {0, 1}
RECURSIVE SeqsUpTo(_)
SeqsUpTo(n) ==
    IF n = 0 THEN {<<>>}
    ELSE LET P == SeqsUpTo(n - 1)
         IN  P \cup {Append(c, b) : c \in {q \in P : Len(q) = n - 1}, b \in Bytes}
Contents == SeqsUpTo(MaxLen)

\* for byte_block in iter(lambda: f.read(4096), b""): sha256_hash.update:
\* the bytes the hash has been fed when the loop ends.
RECURSIVE HashBlocks(_, _)
HashBlocks(rest, fed) ==
    IF rest = <<>> THEN fed
    ELSE LET n == Min(BlockSize, Len(rest))
         IN  HashBlocks(SubSeq(rest, n + 1, Len(rest)), fed \o SubSeq(rest, 1, n))

\* sha256_hash.hexdigest(): the digest of the bytes fed, in lower case.
\* SHA-256 is taken to give different digests to the contents modelled.
hexdigest(fed) == <<HexTok(fed, FALSE)>>

\* A file of the file system: missing, not readable, or with a content.
FileAt(kind, c) == [kind |-> kind, content |-> c]
LocalFiles ==
    {FileAt("missing", <<>>), FileAt("unreadable", <<>>)}
    \cup {FileAt("readable", c) : c \in Contents}

\* if not expected_checksum or expected_checksum == "sha256:...":
SkippedIfEmpty(expected) == expected = <<>>

Skipped(expected) == expected = <<>> \/ expected = Sentinel

\* except Exception of verify_checksum.
verify_checksum_except(e) == IF e \in Exception THEN False ELSE Propagated(e)

\* verify_checksum: the result, and whether open(file_path, "rb") was called.
Verified(r, opened) == [result |-> r, opened |-> opened]
verify_checksum(f, expected) ==
    IF Skipped(expected) THEN Verified(True, FALSE)
    ELSE IF f.kind # "readable"
    THEN Verified(verify_checksum_except("OSError"), TRUE)
    ELSE LET calculated_hash == hexdigest(HashBlocks(f.content, <<>>))
             stripped == StripPrefix(expected)
         IN  Verified(IF Lower(calculated_hash) = Lower(stripped)
                      THEN True ELSE False, TRUE)

\* The values of expected_checksum: "", the placeholder, and the digest of
\* every content with and without the prefix, in either case.
Prefixes == {<<>>, <<PrefixTok(FALSE)>>, <<PrefixTok(TRUE)>>}
Checksums ==
    {<<>>, Sentinel}
    \cup {pre \o <<HexTok(c, up)>> : pre \in Prefixes, c \in Contents, up \in BOOLEAN}

\* ---------------------------------------------------------------- urls
\* A URL of the downloader and of verify_download_link is written without
\* its scheme, as the sequence of its names and separators: the host up to
\* the first "/", then the path.
Dot == "."
Slash == "/"
ExampleIso == <<"example", Dot, "org", Slash, "iso", Slash, "test", Dot, "iso">>
MirrorIso == <<"mirror", Dot, "example", Dot, "org", Slash, "test", Dot, "iso">>
Urls ==
    { <<>>,
      <<"zorinos", Dot, "com", Slash, "download", Slash, "17", Slash, "core">>,
      <<"www", Dot, "microsoft", Dot, "com", Slash, "software-download">>,
      <<"elementary", Dot, "io", Slash, "download">>,
      <<"sgp1", Dot, "dl", Dot, "elementary", Dot, "io", Slash, "os", Dot, "iso">>,
      <<"Elementary", Dot, "IO", Slash, "download">>,
      ExampleIso,
      <<"example", Dot, "org", Slash, "elementary", Dot, "io", Slash, "os", Dot, "iso">>,
      <<"zorinos", Dot, "com", Dot, "example", Dot, "org", Slash, "os", Dot, "iso">> }

\* url.lower()
LowerName(w) ==
    CASE w = "Elementary" -> "elementary"
      [] w = "IO" -> "io"
      [] OTHER -> w
LowerUrl(url) == [i \in DOMAIN url |-> LowerName(url[i])]

\* domain in url: the text of the domain occurs somewhere in the URL.
Occurs(domain, url) ==
    \E i \in 1..Len(url) :
        /\ i + Len(domain) - 1 <= Len(url)
        /\ SubSeq(url, i, i + Len(domain) - 1) = domain

\* ['microsoft.com', 'zorinos.com', 'elementary.io']
RedirectDomains ==
    { <<"microsoft", Dot, "com">>, <<"zorinos", Dot, "com">>,
      <<"elementary", Dot, "io">> }

\* The content-type headers: absent (''), and what servers of images and of
\* pages send.
ContentTypes ==
    {"", "text/html", "text/html; charset=ISO-8859-1",
     "application/octet-stream", "Application/Octet-Stream",
     "application/x-iso9660-image", "application/x-cd-image"}
\* response.headers.get('content-type', '').lower()
LowerType(ct) ==
    CASE ct = "Application/Octet-Stream" -> "application/octet-stream"
      [] ct = "text/html; charset=ISO-8859-1" -> "text/html; charset=iso-8859-1"
      [] OTHER -> ct
\* 'iso' in content_type or 'octet-stream' in content_type
IsoType(ct) ==
    ct \in {"application/octet-stream", "application/x-iso9660-image",
            "text/html; charset=iso-8859-1"}

\* The answer to the HEAD request of verify_download_link: an exception of
\* the requests library, or a response.
HeadOf(err, status, ct, h) ==
    [err |-> err, status |-> status, ctype |-> ct, clen |-> h]

\* The reasons verify_download_link returns.
Reason(text) == [text |-> text, code |-> 0]
LinkError(status) == [text |-> "Link error: HTTP", code |-> status]

\* verify_download_link(url) when the HEAD request is answered by r.
verify_download_link(url, r) ==
    IF url = <<>> THEN Returned("False", Reason("No download link available"))
    ELSE IF r.err
    THEN Returned("False", Reason("Connection error"))
    ELSE IF r.status = 200
    THEN IF IsoType(LowerType(r.ctype))
         THEN Returned("True", Reason("Ready for download"))
         ELSE IF r.clen # NoHeader /\ content_length(r.clen).exc # NoExc
         THEN IF content_length(r.clen).exc \in Exception
              THEN Returned("False", Reason("Verification error"))
              ELSE Propagated(content_length(r.clen).exc)
         ELSE IF r.clen # NoHeader /\ content_length(r.clen).n > MinIsoBytes
         THEN Returned("True", Reason("Ready for download"))
         ELSE IF \E d \in RedirectDomains : Occurs(d, LowerUrl(url))
         THEN Returned("True", Reason("Redirect to official download page"))
         ELSE Returned("False", Reason("Invalid ISO file"))
    ELSE Returned("False", LinkError(r.status))

\* The text of a url of the catalog: empty, one of the three pages written
\* in the source, or the URL of an image on a mirror (pre-seeded or scraped).
UrlText(v) ==
    IF ~Truthy(v) THEN <<>>
    ELSE IF v = Page("zorinos.com")
    THEN <<"zorinos", Dot, "com", Slash, "download", Slash, "17", Slash, "core">>
    ELSE IF v = Page("elementary.io")
    THEN <<"elementary", Dot, "io", Slash, "download">>
    ELSE IF v \in {Seed("Windows/Windows 11"), Seed("Windows/Windows 10")}
    THEN <<"www", Dot, "microsoft", Dot, "com", Slash, "software-download">>
    ELSE ExampleIso

\* The releases of an os_name for which main() shows a link and goes on to
\* the next tab: if os_name == "Windows", if os_name == "Zorin OS".
LinkOnly ==
    {"Windows/Windows 11", "Windows/Windows 10",
     "Zorin OS/17 Core", "Zorin OS/17 Lite"}

\* The catalogs main() may show: that of the source with the links of a
\* refresh merged into it, for every state of the network.
Catalogs == {MergeLinks(InitOsData, UpdatedLinks(n).links) : n \in NetStates}

\* --------------------------------------------------------------- state
\* Thread 0 runs main() (one run after another); thread i >= 1 is the
\* updater thread that the i-th OSInstaller starts.
Main == 0
Installers == 1..MaxInstallers
Threads == 0..MaxInstallers

VARIABLES
    now,      \* datetime.now(), in hours
    net,      \* what the index pages answer during the hours modelled
    file,     \* os_links_cache.json
    nInst,    \* OSInstaller objects constructed so far
    lock,     \* lock[i]: the lock of the i-th OSInstaller's LinkManager is held
    pc,       \* where each thread is
    links,    \* per thread: updated_links, then the dict update_links returned
    os_data,  \* os_data[i]: the catalog urls of the i-th OSInstaller
    wake,     \* per updater thread: when its time.sleep ends
    seen,     \* per thread: the file as load_cache read it in the current call
    invoked,  \* per thread: resolver strategies invoked in the current call
    wrote     \* per thread: open(cache_file, 'w') succeeded in the current call

\* The thread of the script, once main() has its OSInstaller, calls
\* verify_download_link, download_os and verify_checksum; update_links calls
\* the resolvers.  One such call at a time is followed step by step.
VARIABLES
    op,          \* the function called ("": none)
    dpc,         \* where the call is
    args,        \* the arguments of the call and the answers it met
    response,    \* download_os: the object bound to response
    total_size,  \* download_os: total_size
    downloaded,  \* download_os: downloaded
    io,          \* what the call did to its file: open() called, bytes moved
    sent,        \* the HTTP requests the call issued, with their answers
    reports,     \* download_os: the byte counts given to progress_text
    result       \* what the call returned

callVars == <<op, dpc, args, response, total_size, downloaded, io, sent,
              reports, result>>

coreVars == <<now, net, file, nInst, lock, pc, links, os_data, wake, seen,
              invoked, wrote>>

vars == <<coreVars, callVars>>

\* No request answered, no file touched.
NoAnswer ==
    [method |-> "", to |-> <<>>, err |-> FALSE, url |-> <<>>, status |-> 0,
     clen |-> NoHeader, body |-> 0, cut |-> FALSE]
NoIo == [opened |-> FALSE, bytes |-> 0]

\* No call in progress.
NoCall ==
    /\ op = ""
    /\ dpc = "idle"
    /\ args = <<>>
    /\ response = NoAnswer
    /\ total_size = 0
    /\ downloaded = 0
    /\ io = NoIo
    /\ sent = <<>>
    /\ reports = <<>>
    /\ result = NoResult

\* The LinkManager a thread calls: main() that of the OSInstaller it is
\* constructing, an updater thread that of its own OSInstaller.
LM(t) == IF t = Main THEN nInst ELSE t

\* What load_cache found in the file, and when.
SeenOf(f, t) == [kind |-> f.kind, age |-> t - f.ts, links |-> f.links]
NoSeen == [kind |-> "", age |-> 0, links |-> EmptyLinks]

\* The cache files the process may find when it starts: none, files
\* load_cache cannot use, and records an earlier process wrote 23, 24 or 25
\* hours ago.
InitAges == {CacheHours - 1, CacheHours, CacheHours + 1}
AsOld(l) == [k \in Keys |-> IF l[k].kind = "iso" THEN Old(k) ELSE l[k]]
InitLinks ==
    { EmptyLinks,
      ToJson(AsOld(UpdatedLinks(AllOk).links)),
      ToJson(UpdatedLinks([k \in Sites |-> "neterr"]).links) }
InitFiles ==
    {FileOf(kind, 0, EmptyLinks) :
        kind \in {"absent", "unreadable", "invalid_json", "not_object",
                  "no_timestamp", "bad_timestamp"}}
    \cup {FileOf("no_links", 0 - a, EmptyLinks) : a \in InitAges}
    \cup {FileOf("ok", 0 - a, l) : a \in InitAges, l \in InitLinks}

Init ==
    /\ now = 0
    /\ net \in NetStates
    /\ file \in InitFiles
    /\ nInst = 0
    /\ lock = [i \in Installers |-> FALSE]
    /\ pc = [t \in Threads |-> IF t = Main THEN "idle" ELSE "unborn"]
    /\ links = [t \in Threads |-> EmptyLinks]
    /\ os_data = [i \in Installers |-> InitOsData]
    /\ wake = [t \in Threads |-> 0]
    /\ seen = [t \in Threads |-> NoSeen]
    /\ invoked = [t \in Threads |-> 0]
    /\ wrote = [t \in Threads |-> FALSE]
    /\ NoCall

\* ------------------------------------------------------------- actions
\* main(): installer = OSInstaller(), up to its call of self.update_links().
\* A run of main() whose constructor raised has ended; the next run starts.
Construct ==
    /\ pc[Main] \in {"idle", "raised"}
    /\ nInst < MaxInstallers
    /\ nInst' = nInst + 1
    /\ os_data' = [os_data EXCEPT ![nInst + 1] = InitOsData]
    /\ pc' = [pc EXCEPT ![Main] = "lock"]
    /\ links' = [links EXCEPT ![Main] = EmptyLinks]
    /\ seen' = [seen EXCEPT ![Main] = NoSeen]
    /\ invoked' = [invoked EXCEPT ![Main] = 0]
    /\ wrote' = [wrote EXCEPT ![Main] = FALSE]
    /\ UNCHANGED <<now, net, file, lock, wake>>
    /\ UNCHANGED callVars

\* LinkManager.update_links: with self.lock:
Acquire(t) ==
    /\ pc[t] = "lock"
    /\ ~lock[LM(t)]
    /\ lock' = [lock EXCEPT ![LM(t)] = TRUE]
    /\ pc' = [pc EXCEPT ![t] = "load"]
    /\ UNCHANGED <<now, net, file, nInst, links, os_data, wake, seen,
                   invoked, wrote>>
    /\ UNCHANGED callVars

\* The same with the lock acquired and released by hand around the body: the
\* return of the cached links and the exception of load_cache skip the
\* release.
LoadKeepsLock(t) ==
    /\ pc[t] = "load"
    /\ LET r == load_cache(file, now)
       IN  /\ seen' = [seen EXCEPT ![t] = SeenOf(file, now)]
           /\ IF r.tag = "raise"
              THEN /\ pc' = [pc EXCEPT ![t] = "raised"]
                   /\ UNCHANGED links
              ELSE IF CacheHit(r)
              THEN /\ pc' = [pc EXCEPT ![t] = "ret"]
                   /\ links' = [links EXCEPT ![t] = r.links]
              ELSE /\ pc' = [pc EXCEPT ![t] = "resolve"]
                   /\ UNCHANGED links
    /\ UNCHANGED <<now, net, file, nInst, lock, os_data, wake, invoked, wrote>>
    /\ UNCHANGED callVars

\* cached_links = self.load_cache(); if cached_links: return cached_links.
\* An exception of load_cache leaves the with block (the lock is released)
\* and update_links.
Load(t) ==
    /\ pc[t] = "load"
    /\ LET r == load_cache(file, now)
       IN  /\ seen' = [seen EXCEPT ![t] = SeenOf(file, now)]
           /\ IF r.tag = "raise"
              THEN /\ pc' = [pc EXCEPT ![t] = "raised"]
                   /\ lock' = [lock EXCEPT ![LM(t)] = FALSE]
                   /\ UNCHANGED links
              ELSE IF CacheHit(r)
              THEN /\ pc' = [pc EXCEPT ![t] = "ret"]
                   /\ lock' = [lock EXCEPT ![LM(t)] = FALSE]
                   /\ links' = [links EXCEPT ![t] = r.links]
              ELSE /\ pc' = [pc EXCEPT ![t] = "resolve"]
                   /\ UNCHANGED <<lock, links>>
    /\ UNCHANGED <<now, net, file, nInst, os_data, wake, invoked, wrote>>
    /\ UNCHANGED callVars

\* updated_links = {} and the calls of the resolver strategies, in order.
ResolveAll(t) ==
    /\ pc[t] = "resolve"
    /\ LET u == UpdatedLinks(net)
       IN  /\ invoked' = [invoked EXCEPT ![t] = u.invoked]
           /\ links' = [links EXCEPT ![t] = u.links]
           /\ IF u.raised
              THEN /\ pc' = [pc EXCEPT ![t] = "raised"]
                   /\ lock' = [lock EXCEPT ![LM(t)] = FALSE]
              ELSE /\ pc' = [pc EXCEPT ![t] = "save"]
                   /\ UNCHANGED lock
    /\ UNCHANGED <<now, net, file, nInst, os_data, wake, seen, wrote>>
    /\ UNCHANGED callVars

\* save_cache: open(self.cache_file, 'w') truncates the file, or raises
\* OSError (the file cannot be written) and leaves it as it is.
SaveOpen(t) ==
    /\ pc[t] = "save"
    /\ \E ok \in BOOLEAN :
          IF ok
          THEN /\ file' = Truncated
               /\ wrote' = [wrote EXCEPT ![t] = TRUE]
               /\ pc' = [pc EXCEPT ![t] = "dump"]
               /\ UNCHANGED lock
          ELSE /\ pc' = [pc EXCEPT ![t] = "raised"]
               /\ lock' = [lock EXCEPT ![LM(t)] = FALSE]
               /\ UNCHANGED <<file, wrote>>
    /\ UNCHANGED <<now, net, nInst, links, os_data, wake, seen, invoked>>
    /\ UNCHANGED callVars

\* save_cache: json.dump(cache, f) writes the record with
\* datetime.now().isoformat(), or raises OSError (the disk is full) and
\* leaves what it found; then return updated_links.
SaveDump(t) ==
    /\ pc[t] = "dump"
    /\ lock' = [lock EXCEPT ![LM(t)] = FALSE]
    /\ \E ok \in BOOLEAN :
          IF ok
          THEN /\ file' = save_cache(links[t], now)
               /\ pc' = [pc EXCEPT ![t] = "ret"]
          ELSE /\ pc' = [pc EXCEPT ![t] = "raised"]
               /\ UNCHANGED file
    /\ UNCHANGED <<now, net, nInst, links, os_data, wake, seen, invoked,
                   wrote>>
    /\ UNCHANGED callVars

\* OSInstaller.update_links after links = self.link_manager.update_links():
\* the catalog takes the links.  In __init__ start_link_updater() is next,
\* in update_periodically time.sleep(3600).
Merge(t) ==
    /\ pc[t] = "ret"
    /\ os_data' = [os_data EXCEPT ![LM(t)] = MergeLinks(os_data[LM(t)], links[t])]
    /\ pc' = [pc EXCEPT ![t] = IF t = Main THEN "start" ELSE "sleep"]
    /\ wake' = [wake EXCEPT ![t] = IF t = Main THEN 0 ELSE now + SleepHours]
    /\ links' = [links EXCEPT ![t] = EmptyLinks]
    /\ seen' = [seen EXCEPT ![t] = NoSeen]
    /\ invoked' = [invoked EXCEPT ![t] = 0]
    /\ wrote' = [wrote EXCEPT ![t] = FALSE]
    /\ UNCHANGED <<now, net, file, nInst, lock>>
    /\ UNCHANGED callVars

\* start_link_updater: the daemon thread starts, and its loop calls
\* self.update_links() at once; __init__ returns to main().
StartUpdater ==
    /\ pc[Main] = "start"
    /\ pc' = [pc EXCEPT ![Main] = "idle", ![nInst] = "lock"]
    /\ UNCHANGED <<now, net, file, nInst, lock, links, os_data, wake, seen,
                   invoked, wrote>>
    /\ UNCHANGED callVars

\* update_periodically: time.sleep(3600) is over, the next cycle starts.
Wake(t) ==
    /\ t # Main
    /\ pc[t] = "sleep"
    /\ now >= wake[t]
    /\ pc' = [pc EXCEPT ![t] = "lock"]
    /\ UNCHANGED <<now, net, file, nInst, lock, links, os_data, wake, seen,
                   invoked, wrote>>
    /\ UNCHANGED callVars

\* An hour passes.
Tick ==
    /\ now < MaxTime
    /\ now' = now + 1
    /\ UNCHANGED <<net, file, nInst, lock, pc, links, os_data, wake, seen,
                   invoked, wrote>>
    /\ UNCHANGED callVars

Next ==
    \/ Construct
    \/ \E t \in Threads : Acquire(t)
    \/ \E t \in Threads : Load(t)
    \/ \E t \in Threads : ResolveAll(t)
    \/ \E t \in Threads : SaveOpen(t)
    \/ \E t \in Threads : SaveDump(t)
    \/ \E t \in Threads : Merge(t)
    \/ StartUpdater
    \/ \E t \in Threads : Wake(t)
    \/ Tick

Spec == Init /\ [][Next]_vars

\* A process in which main() runs once: one OSInstaller, its constructor and
\* its updater thread.
ConstructOnce == nInst = 0 /\ Construct

NextOne ==
    \/ ConstructOnce
    \/ \E t \in Threads : Acquire(t)
    \/ \E t \in Threads : Load(t)
    \/ \E t \in Threads : ResolveAll(t)
    \/ \E t \in Threads : SaveOpen(t)
    \/ \E t \in Threads : SaveDump(t)
    \/ \E t \in Threads : Merge(t)
    \/ StartUpdater
    \/ \E t \in Threads : Wake(t)
    \/ Tick

SpecOne == Init /\ [][NextOne]_vars

\* The single run of main() under a scheduler that lets every thread take
\* its next step: the threads are threads of the operating system, and no
\* step of update_links waits for anything but the lock (every resolver call
\* returns).  The network is up, or down as a whole.
InitFair ==
    /\ Init
    /\ net \in {AllOk} \cup {[k \in Sites |-> o] : o \in Failures}

FairOne ==
    /\ InitFair
    /\ [][NextOne]_vars
    /\ \A t \in Threads :
          /\ WF_vars(Acquire(t))
          /\ WF_vars(Load(t))
          /\ WF_vars(ResolveAll(t))
          /\ WF_vars(SaveOpen(t))
          /\ WF_vars(SaveDump(t))

\* --------------------------------------------------------------- calls
\* An HTTP request with its answer: an exception of the requests library
\* (err), or a response with its final URL (response.url), status,
\* content-length header, the bytes its body delivers, and whether the
\* stream breaks (ChunkedEncodingError) after them.
Answer(method, to, err, url, status, h, body, cut) ==
    [method |-> method, to |-> to, err |-> err, url |-> url,
     status |-> status, clen |-> h, body |-> body, cut |-> cut]

Headers == {NoHeader, BadHeader} \cup {NumHeader(n) : n \in 0..MaxBody}

\* The answers to session.get(url, stream=True, allow_redirects=True).
GetAnswers(u) ==
    {Answer("GET", u, TRUE, <<>>, 0, NoHeader, 0, FALSE)}
    \cup {Answer("GET", u, FALSE, f, st, h, b, c) :
            f \in {u, MirrorIso}, st \in Statuses, h \in Headers,
            b \in 0..MaxBody, c \in BOOLEAN}

\* The answers to session.head(final_url): a HEAD response has no body.
HeadAnswers(u) ==
    {Answer("HEAD", u, TRUE, <<>>, 0, NoHeader, 0, FALSE)}
    \cup {Answer("HEAD", u, FALSE, u, st, h, 0, FALSE) :
            st \in Statuses, h \in Headers}

\* download_os, from session.get to the first test of total_size.
Get(u, called) ==
    \E a \in GetAnswers(u) :
          LET e == IF a.err THEN "ConnectionError" ELSE raise_for_status(a.status)
              cl == content_length(a.clen)
          IN  /\ op' = "download_os"
              /\ args' = called
              /\ sent' = <<a>>
              /\ response' = IF a.err THEN NoAnswer ELSE a
              /\ IF e # NoExc
                 THEN /\ result' = download_os_except(e)
                      /\ dpc' = "done"
                      /\ UNCHANGED total_size
                 ELSE IF cl.exc # NoExc
                 THEN /\ result' = download_os_except(cl.exc)
                      /\ dpc' = "done"
                      /\ UNCHANGED total_size
                 ELSE /\ total_size' = cl.n
                      /\ dpc' = IF cl.n = 0 THEN "probe" ELSE "open"
                      /\ UNCHANGED result

\* download_os(url, destination) called on the URL of an image.
DownloadGet ==
    /\ op = ""
    /\ Get(ExampleIso, <<ExampleIso>>)
    /\ UNCHANGED <<downloaded, io, reports>>
    /\ UNCHANGED coreVars

\* if total_size == 0: response = session.head(final_url), total_size from
\* its content-length, and return False if that is 0 too.
DownloadHead ==
    /\ op = "download_os"
    /\ dpc = "probe"
    /\ \E a \in HeadAnswers(response.url) :
          LET cl == content_length(a.clen)
          IN  /\ sent' = Append(sent, a)
              /\ response' = IF a.err THEN response ELSE a
              /\ IF a.err
                 THEN /\ result' = download_os_except("ConnectionError")
                      /\ dpc' = "done"
                      /\ UNCHANGED total_size
                 ELSE IF cl.exc # NoExc
                 THEN /\ result' = download_os_except(cl.exc)
                      /\ dpc' = "done"
                      /\ UNCHANGED total_size
                 ELSE /\ total_size' = cl.n
                      /\ IF cl.n = 0
                         THEN result' = False /\ dpc' = "done"
                         ELSE dpc' = "open" /\ UNCHANGED result
    /\ UNCHANGED <<op, args, downloaded, io, reports>>
    /\ UNCHANGED coreVars

\* with open(destination, 'wb') as f: downloaded = 0; open may raise OSError.
DownloadOpen ==
    /\ op = "download_os"
    /\ dpc = "open"
    /\ io' = [opened |-> TRUE, bytes |-> 0]
    /\ downloaded' = 0
    /\ \E ok \in BOOLEAN :
          IF ok
          THEN dpc' = "stream" /\ UNCHANGED result
          ELSE dpc' = "done" /\ result' = download_os_except("OSError")
    /\ UNCHANGED <<op, args, response, total_size, sent, reports>>
    /\ UNCHANGED coreVars

\* One turn of for data in response.iter_content(...), or its end and
\* return True.  f.write may raise OSError; progress_bar.progress raises
\* StreamlitAPIException for a value above 100.
DownloadChunk ==
    /\ op = "download_os"
    /\ dpc = "stream"
    /\ LET left == response.body - downloaded
           n == Min(ChunkSize, left)
           progress == ((downloaded + n) * 100) \div total_size
       IN  IF left = 0
           THEN /\ dpc' = "done"
                /\ result' = IF response.cut
                             THEN download_os_except("ChunkedEncodingError")
                             ELSE True
                /\ UNCHANGED <<downloaded, io, reports>>
           ELSE /\ downloaded' = downloaded + n
                /\ \E ok \in BOOLEAN :
                      IF ~ok
                      THEN /\ dpc' = "done"
                           /\ result' = download_os_except("OSError")
                           /\ UNCHANGED <<io, reports>>
                      ELSE /\ io' = [io EXCEPT !.bytes = @ + n]
                           /\ IF progress > 100
                              THEN /\ dpc' = "done"
                                   /\ result' =
                                        download_os_except("StreamlitAPIException")
                                   /\ UNCHANGED reports
                              ELSE /\ reports' = Append(reports, downloaded + n)
                                   /\ UNCHANGED <<dpc, result>>
    /\ UNCHANGED <<op, args, response, total_size, sent>>
    /\ UNCHANGED coreVars

\* verify_checksum(file_path, expected_checksum) on a file of the file system.
VerifyChecksum ==
    /\ op = ""
    /\ \E f \in LocalFiles, expected \in Checksums :
          LET v == verify_checksum(f, expected)
          IN  /\ args' = <<f, expected>>
              /\ result' = v.result
              /\ io' = [opened |-> v.opened,
                        bytes |-> IF v.opened THEN Len(f.content) ELSE 0]
    /\ op' = "verify_checksum"
    /\ dpc' = "done"
    /\ UNCHANGED <<response, total_size, downloaded, sent, reports>>
    /\ UNCHANGED coreVars

\* The content-length headers verify_download_link may meet.
LinkHeaders ==
    {NoHeader, BadHeader} \cup
    {NumHeader(n) : n \in {0, MinIsoBytes, MinIsoBytes + 1}}

\* verify_download_link(url): session.head(url, allow_redirects=True) and
\* the classification of its answer.
VerifyLink ==
    /\ op = ""
    /\ \E url \in Urls :
       \E r \in {HeadOf(TRUE, 0, "", NoHeader)} \cup
                {HeadOf(FALSE, st, ct, h) :
                    st \in Statuses, ct \in ContentTypes, h \in LinkHeaders} :
          /\ args' = <<url, r>>
          /\ result' = verify_download_link(url, r)
          /\ sent' = IF url = <<>> THEN <<>>
                     ELSE <<Answer("HEAD", url, r.err, url, r.status, r.clen,
                                   0, FALSE)>>
    /\ op' = "verify_download_link"
    /\ dpc' = "done"
    /\ UNCHANGED <<response, total_size, downloaded, io, reports>>
    /\ UNCHANGED coreVars

\* main(), one tab of an os_name with the button pressed: the url of the
\* release is verified; an unavailable link shows an error, for Windows and
\* Zorin OS a link to the page is shown, and for every other os_name
\* download_os is called next.
Install ==
    /\ op = ""
    /\ \E r \in Releases :
       \E value \in {os[r] : os \in Catalogs} :
       \E h \in {HeadOf(TRUE, 0, "", NoHeader)} \cup
                {HeadOf(FALSE, st, ct, cl) :
                    st \in Statuses, ct \in ContentTypes, cl \in LinkHeaders} :
          LET url == UrlText(value)
              v == verify_download_link(url, h)
          IN  /\ args' = <<url, v.reason.text>>
              /\ sent' = IF url = <<>> THEN <<>>
                         ELSE <<Answer("HEAD", url, h.err, url, h.status, h.clen,
                                       0, FALSE)>>
              /\ IF v.ok # "True"
                 THEN dpc' = "done" /\ result' = [shown |-> "error"]
                 ELSE IF r \in LinkOnly
                 THEN dpc' = "done" /\ result' = [shown |-> "link"]
                 ELSE dpc' = "call" /\ UNCHANGED result
    /\ op' = "main"
    /\ UNCHANGED <<response, total_size, downloaded, io, reports>>
    /\ UNCHANGED coreVars

\* main(): installer.download_os(os_info["url"], destination).
MainDownload ==
    /\ op = "main"
    /\ dpc = "call"
    /\ Get(args[1], args)
    /\ UNCHANGED <<downloaded, io, reports>>
    /\ UNCHANGED coreVars

\* The requests of a resolver as the list of requests issued.
Requested(names, outcomes) ==
    [i \in DOMAIN names |->
        Answer("GET", <<names[i]>>, outcomes[i] = "neterr", <<names[i]>>,
               0, NoHeader, 0, FALSE)]

\* What the index of the primary mirror gives get_arch_link: an exception, a
\* latest version directory, or none.
IndexOutcome(index) ==
    IF index.err THEN "neterr"
    ELSE IF LatestVersion(index.anchors, <<>>) # <<>> THEN "ok" ELSE "nomatch"

\* get_arch_link() with the index of the primary mirror answered by a page
\* of version directories and each later request answered in some way.
GetArchLink ==
    /\ op = ""
    /\ \E index \in IndexPages(LabelLists) :
       \E rest \in [2..Len(ArchRequests) -> Outcomes] :
          LET a == [i \in 1..Len(ArchRequests) |->
                        IF i = 1 THEN IndexOutcome(index) ELSE rest[i]]
          IN  /\ args' = [index |-> index, a |-> a]
              /\ result' = [found |-> ArchSources(a).found,
                            tried |-> ArchSources(a).tried,
                            latest |-> IF index.err THEN <<>>
                                       ELSE LatestVersion(index.anchors, <<>>)]
              /\ sent' = Requested(ArchSources(a).tried, a)
    /\ op' = "get_arch_link"
    /\ dpc' = "done"
    /\ UNCHANGED <<response, total_size, downloaded, io, reports>>
    /\ UNCHANGED coreVars

\* get_popos_link(version, nvidia) with its index answered by a page of build
\* directories and the HEAD of final_url answered in some way.
GetPoposLink ==
    /\ op = ""
    /\ \E a \in IndexPages(LabelLists), h \in Outcomes :
          LET r == PoposLink(a, h)
              get == Answer("GET", <<"iso.pop-os.org">>, a.err,
                            <<"iso.pop-os.org">>, a.status, NoHeader, 0, FALSE)
              head == Answer("HEAD", r.latest, h = "neterr", r.latest,
                             IF h = "ok" THEN 200 ELSE 404, NoHeader, 0, FALSE)
          IN  /\ args' = [index |-> a, head |-> h]
              /\ result' = r
              /\ sent' = IF r.latest = <<>> THEN <<get>> ELSE <<get, head>>
    /\ op' = "get_popos_link"
    /\ dpc' = "done"
    /\ UNCHANGED <<response, total_size, downloaded, io, reports>>
    /\ UNCHANGED coreVars

\* get_ubuntu_link, get_fedora_link, get_debian_link, get_mint_link,
\* get_manjaro_link or get_kali_link with its listing answered in some way.
GetListingLink ==
    /\ op = ""
    /\ \E f \in ListingResolvers, a \in IndexPages(FileLists) :
          /\ op' = f
          /\ args' = a
          /\ result' = ListingLink(f, a)
          /\ sent' = <<Answer("GET", <<f>>, a.err, <<f>>, a.status, NoHeader,
                              0, FALSE)>>
    /\ dpc' = "done"
    /\ UNCHANGED <<response, total_size, downloaded, io, reports>>
    /\ UNCHANGED coreVars

\* get_zorin_link(edition): the URL of the edition, and no request.
GetZorinLink ==
    /\ op = ""
    /\ \E k \in {"zorin_core", "zorin_lite"} :
          /\ args' = <<k>>
          /\ result' = get_zorin_link(k)
    /\ sent' = <<>>
    /\ op' = "get_zorin_link"
    /\ dpc' = "done"
    /\ UNCHANGED <<response, total_size, downloaded, io, reports>>
    /\ UNCHANGED coreVars

\* get_elementary_link() with each of its requests answered in some way.
GetElementaryLink ==
    /\ op = ""
    /\ \E e \in [1..Len(ElementaryRequests) -> Outcomes] :
          /\ args' = e
          /\ result' = ElementarySources(e)
          /\ sent' = Requested(ElementarySources(e).tried, e)
    /\ op' = "get_elementary_link"
    /\ dpc' = "done"
    /\ UNCHANGED <<response, total_size, downloaded, io, reports>>
    /\ UNCHANGED coreVars

\* The call has returned; the thread goes on to its next call.
Return ==
    /\ dpc = "done"
    /\ op' = ""
    /\ dpc' = "idle"
    /\ args' = <<>>
    /\ response' = NoAnswer
    /\ total_size' = 0
    /\ downloaded' = 0
    /\ io' = NoIo
    /\ sent' = <<>>
    /\ reports' = <<>>
    /\ result' = NoResult
    /\ UNCHANGED coreVars

\* The calls alone, on a process that has not started its OSInstaller.
InitCalls ==
    /\ Init
    /\ net = AllOk
    /\ file = FileOf("absent", 0, EmptyLinks)

NextCalls ==
    \/ DownloadGet
    \/ DownloadHead
    \/ DownloadOpen
    \/ DownloadChunk
    \/ VerifyChecksum
    \/ VerifyLink
    \/ GetArchLink
    \/ GetElementaryLink
    \/ GetPoposLink
    \/ GetListingLink
    \/ GetZorinLink
    \/ Install
    \/ MainDownload
    \/ Return

SpecCalls == InitCalls /\ [][NextCalls]_vars

\* -------------------------------------------------------------- claims
\* A thread is inside LinkManager.update_links.
InCall(t) == pc[t] \in {"lock", "load", "resolve", "save", "dump", "ret"}
\* A thread is between the first resolver call and the end of save_cache.
InRefresh(t) == pc[t] \in {"resolve", "save", "dump"}
\* The current call of the thread read a record that the freshness rule of
\* the specification (now - timestamp < 24h) accepts.
SawFresh(t) == seen[t].kind = "ok" /\ seen[t].age < CacheHours
\* The current call of the thread has read the file and found no fresh record.
SawStale(t) == seen[t] # NoSeen /\ ~SawFresh(t)
\* The current call of the thread has run the resolver strategies.
Refreshed(t) == invoked[t] > 0

\* C1: whenever the persisted record is fresh, whatever its links mapping
\* holds (an empty mapping too), update_links returns that mapping
\* unchanged, invokes no resolver and does not rewrite the cache file.
C1_FreshRecordIsServed ==
    \A t \in Threads :
        SawFresh(t) =>
            /\ ~InRefresh(t)
            /\ invoked[t] = 0
            /\ ~wrote[t]
            /\ pc[t] = "ret" => links[t] = FromJson(seen[t].links)

\* What a call holds once it has read the file: a mapping returned without
\* the resolvers comes from a fresh record and is that record's mapping; a
\* call that found no fresh record has invoked every strategy before
\* save_cache, holds the mapping just resolved, and returns only after
\* open(cache_file, 'w') succeeded.
C2_Served ==
    \A t \in Threads :
        /\ (pc[t] = "ret" /\ ~Refreshed(t)) =>
                SawFresh(t) /\ links[t] = FromJson(seen[t].links)
        /\ (SawStale(t) /\ pc[t] \in {"save", "dump", "ret"}) =>
                /\ invoked[t] = Len(Strategies)
                /\ links[t] = UpdatedLinks(net).links
        /\ (SawStale(t) /\ pc[t] = "ret") => wrote[t]

\* The step in which save_cache writes and update_links returns: the file
\* then holds the mapping of the call with the time of writing.
C2_Persisted ==
    \A t \in Threads :
        (pc[t] = "dump" /\ pc'[t] = "ret") =>
            /\ file'.kind = "ok"
            /\ file'.ts = now
            /\ FromJson(file'.links) = links[t]
            /\ links'[t] = links[t]

\* C2: a record is served only if timestamp + 24h > now; on a stale or
\* absent record every resolver strategy is invoked and a call that returns
\* returns the mapping just resolved, which save_cache has written with the
\* timestamp of the moment of writing.
C2_StaleRecordIsRefreshed == [](C2_Served) /\ [][C2_Persisted]_vars

\* A call that found a stale record has resolved, persisted and returned.
C2_Witness ==
    \E t \in Threads :
        /\ pc[t] = "ret"
        /\ seen[t].kind = "ok"
        /\ seen[t].age >= CacheHours
        /\ invoked[t] = Len(Strategies)
        /\ wrote[t]
        /\ file = save_cache(links[t], now)

\* C3: two threads inside update_links at the same time never both run the
\* resolver strategies, and when both have returned they hold equal mappings.
C3_OneFanOutForTwoCallers ==
    \A t1, t2 \in Threads :
        (t1 # t2 /\ InCall(t1) /\ InCall(t2)) =>
            /\ ~(Refreshed(t1) /\ Refreshed(t2))
            /\ (pc[t1] = "ret" /\ pc[t2] = "ret") => links[t1] = links[t2]

\* C4: at most one thread of the process is between its first resolver call
\* and the end of its save_cache, and no thread is about to read the cache
\* file while another has truncated it and not yet written it.
C4_OneRefreshInFlight ==
    \A t1, t2 \in Threads :
        t1 # t2 =>
            /\ ~(InRefresh(t1) /\ InRefresh(t2))
            /\ ~(pc[t1] = "dump" /\ pc[t2] = "load")

\* C5: the process has at most one updater thread, whatever the number of
\* OSInstaller objects constructed.
C5_OneUpdaterThread ==
    Cardinality({i \in Installers : pc[i] # "unborn"}) <= 1

\* C6: no updater thread ever ends: no exception leaves update_periodically.
C6_UpdaterNeverEnds ==
    \A i \in Installers : pc[i] # "raised"

\* A merge that ends a refresh cycle leaves the url that is a URL, of a
\* release whose strategy failed in the cycle, as it was.
C7_Merge ==
    \A t \in Threads :
        (pc[t] = "ret" /\ pc'[t] # "ret" /\ Refreshed(t)) =>
            \A m \in MergeTable :
                (~Truthy(Resolve(m[1], net)) /\ Truthy(os_data[LM(t)][m[2]])) =>
                    os_data'[LM(t)][m[2]] = os_data[LM(t)][m[2]]

\* C7: the merge that ends a refresh cycle never replaces the resolved or
\* pre-seeded url of a release whose resolution failed in that cycle: the
\* url stays as it was before the cycle.
C7_FailedResolutionKeepsUrl == [][C7_Merge]_vars

\* The files that hold no usable record.
Unusable ==
    {"absent", "unreadable", "invalid_json", "not_object", "no_timestamp",
     "bad_timestamp", "no_links"}

\* C8: load_cache never raises: whenever the file is missing, malformed or
\* unreadable the call goes on to the resolver strategies.
C8_LoadCacheNeverRaises ==
    \A t \in Threads :
        /\ ~(pc[t] = "raised" /\ ~Refreshed(t))
        /\ seen[t].kind \in Unusable => (pc[t] = "resolve" \/ Refreshed(t))

\* C9: a call that reached the resolver strategies has invoked every one of
\* them, whichever failed, and the mapping it then saves and returns holds
\* the result of every strategy that succeeded.
C9_FailureDoesNotAbortBatch ==
    \A t \in Threads :
        Refreshed(t) =>
            /\ invoked[t] = Len(Strategies)
            /\ pc[t] \in {"save", "dump", "ret", "raised"}
            /\ \A k \in Keys :
                  Truthy(Resolve(k, net)) => links[t][k] = Resolve(k, net)

\* A refresh in which one strategy met a network error has returned a
\* mapping with the result of a strategy that comes after it.
C9_Witness ==
    \E t \in Threads :
        /\ pc[t] = "ret"
        /\ Refreshed(t)
        /\ \E i, j \in 1..Len(Strategies) :
              /\ i < j
              /\ Strategies[i] \in Sites
              /\ net[Strategies[i]] = "neterr"
              /\ links[t][Strategies[j]] = Iso(Strategies[j])

\* C10: every entry of the mapping built by a refresh is a non-empty URL,
\* and the key of a strategy that failed is not in the mapping.
C10_OnlySuccessfulResults ==
    \A t \in Threads :
        invoked[t] = Len(Strategies) =>
            \A k \in Keys :
                /\ Has(links[t], k) => Truthy(links[t][k])
                /\ ~Truthy(Resolve(k, net)) => ~Has(links[t], k)

\* The release of the catalog that each resolution key of
\* LinkManager.update_links resolves, <<key, release>>.
KeyRelease ==
    MergeTable \cup
    { <<"fedora_39", "Fedora/Fedora 39">>,
      <<"debian_dvd", "Debian/12.5.0 DVD">>,
      <<"mint_21.3_cinnamon", "Linux Mint/21.3 Cinnamon">>,
      <<"mint_21.3_mate", "Linux Mint/21.3 MATE">>,
      <<"mint_21.3_xfce", "Linux Mint/21.3 Xfce">>,
      <<"zorin_core", "Zorin OS/17 Core">>,
      <<"zorin_lite", "Zorin OS/17 Lite">> }

\* A thread takes the step of the merge.
Merging(t) == pc[t] = "ret" /\ pc'[t] # "ret"

\* After the merge the url of the release of every key of the mapping is the
\* value the mapping has for the key.
C11_Merge ==
    \A t \in Threads :
        Merging(t) =>
            \A m \in KeyRelease :
                Has(links[t], m[1]) => os_data'[LM(t)][m[2]] = links[t][m[1]]

\* C11: after a merge, the url of every release whose resolution key is in
\* the resolved mapping (fedora_39, debian_dvd, mint_21.3_<edition> and
\* zorin_<edition> too) equals the value of the mapping for that key.
C11_MergeCoversEveryKey == [][C11_Merge]_vars

\* Merging the mapping of the step once more leaves the catalog as the step
\* left it.
C12_Merge ==
    \A t \in Threads :
        Merging(t) => MergeLinks(os_data'[LM(t)], links[t]) = os_data'[LM(t)]

\* C12: the merge is idempotent: applying it a second time with the same
\* mapping gives the catalog that applying it once gave.
C12_MergeIsIdempotent == [][C12_Merge]_vars

\* The updater thread has merged the mapping of the cache record into the
\* catalog into which the constructor had merged the same mapping.
C12_Witness ==
    \E i \in Installers :
        /\ pc[i] = "sleep"
        /\ file.kind = "ok"
        /\ os_data[i] = MergeLinks(InitOsData, FromJson(file.links))
        /\ os_data[i] # InitOsData

\* C13: every cycle of update_periodically runs the resolver strategies
\* before it merges, whatever the age of the cache record.
C13_EveryCycleReResolves ==
    \A i \in Installers : pc[i] = "ret" => Refreshed(i)

\* A call of the function has returned (or an exception has left it).
Done(f) == op = f /\ dpc = "done"

\* download_os: the GET response passed raise_for_status and carried no
\* content-length, or one of 0.
GetWithoutLength ==
    /\ op = "download_os"
    /\ ~sent[1].err
    /\ raise_for_status(sent[1].status) = NoExc
    /\ sent[1].clen \in {NoHeader, NumHeader(0)}

\* download_os: the second request gave no content-length above 0.
HeadWithoutLength ==
    /\ Len(sent) >= 2
    /\ ~(~sent[2].err /\ sent[2].clen.kind = "num" /\ sent[2].clen.n > 0)

\* C14: when the GET response carries no content-length (or 0), download_os
\* sends a HEAD request to the final redirected URL; if that gives no
\* content-length either, download_os returns False and has neither opened
\* nor written the destination file.
C14_NoSizeNoDownload ==
    GetWithoutLength =>
        /\ dpc = "probe" => (Len(sent) = 1 /\ ~io.opened)
        /\ dpc # "probe" =>
              /\ Len(sent) = 2
              /\ sent[2].method = "HEAD"
              /\ sent[2].to = sent[1].url
        /\ HeadWithoutLength =>
              /\ dpc = "done"
              /\ result = False
              /\ io = NoIo

\* download_os was redirected, found no content-length in the GET response
\* nor in the HEAD response, and returned False.
C14_Witness ==
    /\ Done("download_os")
    /\ GetWithoutLength
    /\ sent[1].clen = NoHeader
    /\ sent[1].url = MirrorIso
    /\ Len(sent) = 2
    /\ ~sent[2].err
    /\ sent[2].clen = NoHeader
    /\ result = False

\* C15: download_os, verify_checksum and verify_download_link never raise,
\* and return False for every connection failure, every final status that
\* is not 2xx, every malformed content-length and every file that cannot
\* be read.
C15_FailuresAreReturned ==
    /\ (dpc = "done" /\ op \in {"download_os", "verify_checksum",
                               "verify_download_link"}) =>
            result.ok \in {"True", "False"}
    /\ Done("download_os") =>
            ((sent[1].err \/ sent[1].status \notin 200..299
                \/ sent[1].clen = BadHeader) => result = False)
    /\ Done("verify_download_link") =>
            ((args[1] # <<>> /\ (args[2].err \/ args[2].status \notin 200..299))
                => (result.ok = "False" /\ result.reason.text # ""))
    /\ Done("verify_checksum") =>
            ((io.opened /\ args[1].kind # "readable") => result = False)

\* C16: whenever download_os returns True it has reported progress at least
\* once, and the byte count of its last report, which is the number of
\* bytes written to the destination, equals the total size of content-length.
C16_ReportedBytesAreTotal ==
    (Done("download_os") /\ result = True) =>
        /\ Len(reports) >= 1
        /\ reports[Len(reports)] = io.bytes
        /\ io.bytes = total_size

\* The host of a URL, in lower case: its text up to the first "/".
HostOf(url) ==
    LET u == LowerUrl(url)
        n == IF \E i \in 1..Len(u) : u[i] = Slash
             THEN CHOOSE i \in 1..Len(u) :
                      u[i] = Slash /\ \A j \in 1..(i - 1) : u[j] # Slash
             ELSE Len(u) + 1
    IN  SubSeq(u, 1, n - 1)

\* The host is the domain or a name under it.
HostIn(h, d) ==
    /\ Len(h) >= Len(d)
    /\ SubSeq(h, Len(h) - Len(d) + 1, Len(h)) = d
    /\ Len(h) > Len(d) => h[Len(h) - Len(d)] = Dot

\* The rule of the specification for a usable link.
Usable(url, r) ==
    /\ url # <<>>
    /\ ~r.err
    /\ r.status = 200
    /\ \/ IsoType(LowerType(r.ctype))
       \/ r.clen.kind = "num" /\ r.clen.n > MinIsoBytes
       \/ \E d \in RedirectDomains : HostIn(HostOf(url), d)

\* C17: verify_download_link returns True if and only if the status is 200
\* and the content-type contains iso or octet-stream, or content-length is
\* above 100,000,000, or the host of the URL is one of microsoft.com,
\* zorinos.com, elementary.io; the reason of a non-200 status has the code.
\* (A content-length that is not a number is left to C15.)
C17_UsableIffRule ==
    (Done("verify_download_link") /\ args[2].clen # BadHeader) =>
        /\ result.ok = "True" <=> Usable(args[1], args[2])
        /\ (args[1] # <<>> /\ ~args[2].err /\ args[2].status # 200) =>
              result.reason.code = args[2].status

\* The true digest of a content as the claim writes it: with or without the
\* prefix sha256:, its hex digits in either case.
DigestForms ==
    {pre \o <<HexTok(c, up)>> :
        pre \in {<<>>, <<PrefixTok(FALSE)>>}, c \in Contents, up \in BOOLEAN}

C19_PlaceholderSkips ==
    (Done("verify_checksum") /\ args[2] \in {<<>>, Sentinel}) =>
        /\ result = True
        /\ io = NoIo

\* verify_checksum has returned True for the placeholder on a missing file.
C19_Witness ==
    /\ Done("verify_checksum")
    /\ args[1].kind = "missing"
    /\ args[2] = Sentinel
    /\ result = True
    /\ ~io.opened

\* The sources of get_arch_link in their order: the primary mirror (its
\* two requests) and the two fallback mirrors, by the request that gives
\* the URL.
ArchSourceRequest == <<2, 3, 4>>
ArchYields(a, src) ==
    IF src = 1 THEN a[1] = "ok" /\ a[2] = "ok"
    ELSE a[ArchSourceRequest[src]] = "ok"

\* The first source in the order that gives a URL (0: none does).
FirstOf(yields) ==
    IF yields = {} THEN 0
    ELSE CHOOSE x \in yields : \A y \in yields : x <= y

\* C20: get_arch_link and get_elementary_link go through their sources in
\* the fixed order, go on to the next source whenever one fails (a network
\* error on the primary too), and return the URL of the first source that
\* gives one.
C20_FirstSourceThatAnswers ==
    /\ Done("get_arch_link") =>
          LET first == FirstOf({x \in 1..3 : ArchYields(args.a, x)})
          IN  /\ result.found = IF first = 0 THEN 0 ELSE ArchSourceRequest[first]
              /\ first # 0 => Len(result.tried) <= ArchSourceRequest[first]
    /\ Done("get_elementary_link") =>
          LET first == FirstOf({x \in 1..Len(ElementaryRequests) :
                                    args[x] = "ok"})
          IN  first # 0 => (result.found = first /\ Len(result.tried) = first)

\* The labels a resolver of a directory listing chose among: the candidate
\* hrefs of the index it read (get_popos_link reads it at status 200 only).
Candidates ==
    IF args.index.err \/ (op = "get_popos_link" /\ args.index.status # 200)
    THEN {}
    ELSE {args.index.anchors[i] : i \in DOMAIN args.index.anchors}

ReadMatches(f) ==
    /\ Done(f)
    /\ ~args.err
    /\ \E i \in DOMAIN args.anchors : args.anchors[i] # 0

\* The resolver returned the href of anchor i of the listing.
ReturnedAnchor(i) == args.anchors[i] # 0 /\ result = args.anchors[i]

\* C22 as stated: each single-listing resolver returns the URL of the first
\* anchor, in document order, that matches its pattern, for every listing
\* with one or more matches.
C22_FirstMatchReturned ==
    \A f \in ListingResolvers :
        ReadMatches(f) =>
            \E i \in DOMAIN args.anchors :
                /\ ReturnedAnchor(i)
                /\ \A j \in 1..(i - 1) : args.anchors[j] = 0

\* C22 as amended: get_ubuntu_link, get_fedora_link, get_debian_link,
\* get_mint_link and get_kali_link return the URL of the first matching
\* anchor in document order, and get_manjaro_link that of the last.
C22_FirstMatchOrManjaroLast ==
    \A f \in ListingResolvers :
        ReadMatches(f) =>
            \E i \in DOMAIN args.anchors :
                /\ ReturnedAnchor(i)
                /\ IF f = "get_manjaro_link"
                   THEN \A j \in (i + 1)..Len(args.anchors) : args.anchors[j] = 0
                   ELSE \A j \in 1..(i - 1) : args.anchors[j] = 0

\* A resolver that returns the first match read a listing whose first and
\* last matching anchors differ.
C22_Witness ==
    \E f \in ListingResolvers \ {"get_manjaro_link"} :
        /\ ReadMatches(f)
        /\ \E i, j \in DOMAIN args.anchors :
              /\ i < j
              /\ ReturnedAnchor(i)
              /\ args.anchors[j] \notin {0, args.anchors[i]}

\* C23: a resolver that issues a GET against an index page returns None
\* when the status of the response is not 200, whatever anchors its body
\* holds (for get_arch_link: no URL comes from the primary mirror when its
\* index answered another status).
C23_NonOkStatusGivesNone ==
    /\ \A f \in ListingResolvers :
          Done(f) /\ ~args.err /\ args.status # 200 => result = 0
    /\ Done("get_popos_link") /\ ~args.index.err /\ args.index.status # 200 =>
          ~result.url
    /\ Done("get_arch_link") /\ ~args.index.err /\ args.index.status # 200 =>
          result.found # 2

\* C24: get_zorin_link and get_elementary_link report a URL only after a
\* HEAD request to that URL was answered with status 200, and report None
\* when no such check succeeded.
C24_AvailableOnlyAfterHead ==
    /\ Done("get_zorin_link") /\ Truthy(result) =>
          \E i \in DOMAIN sent :
              sent[i].method = "HEAD" /\ ~sent[i].err /\ sent[i].status = 200
    /\ Done("get_elementary_link") /\ result.found # 0 =>
          /\ result.found \in DOMAIN args
          /\ args[result.found] = "ok"

\* The steps of update_links inside with self.lock:.
InWith(t) == pc[t] \in {"load", "resolve", "save", "dump"}

\* C25: the lock of a LinkManager is released on every exit of update_links
\* (cache hit, completed refresh, exception of load_cache or of save_cache):
\* it is held only while a thread is inside the with block, and a thread
\* that waits for it acquires it.
C25_LockReleasedOnEveryExit ==
    /\ [](\A i \in Installers :
            lock[i] => \E t \in Threads : LM(t) = i /\ InWith(t))
    /\ \A t \in Threads : (pc[t] = "lock") ~> InWith(t)

\* The updater thread, which acquired the lock after the constructor's call
\* had left it, has left update_links by the exception of save_cache.
C25_Witness ==
    \E t \in Threads \ {Main} :
        /\ pc[t] = "raised"
        /\ invoked[t] = Len(Strategies)
        /\ ~lock[LM(t)]

\* Every resolver that issues requests fails.
AllFailed == \A k \in Sites : net[k] \in Failures

\* The file holds the record a refresh of this process wrote when every
\* resolver failed, and the record is younger than 24 hours at time t.
FailedRecordAt(t) ==
    /\ AllFailed
    /\ file.kind = "ok"
    /\ file.ts >= 0
    /\ Fresh(file.ts, t)

\* C26: a refresh in which every resolver failed is persisted with a new
\* timestamp; from then until the record is 24 hours old it stays in the
\* file, and every update_links call that reads the file returns it and
\* invokes no resolver.
C26_Step ==
    /\ \A t \in Threads :
          (AllFailed /\ pc[t] = "dump" /\ pc'[t] = "ret") =>
              file' = save_cache(UpdatedLinks(net).links, now)
    /\ FailedRecordAt(now') =>
          /\ file' = file
          /\ \A t \in Threads :
                (pc[t] = "load" /\ pc'[t] # "load") =>
                    /\ pc'[t] = "ret"
                    /\ links'[t] = FromJson(file.links)
                    /\ invoked'[t] = 0

C26_FailedRefreshIsNotRetried == [][C26_Step]_vars

\* main() verified the url of a release and verify_download_link accepted it
\* only as the page of a redirect domain.
RedirectOnly ==
    /\ op \in {"main", "download_os"}
    /\ Len(args) = 2
    /\ args[2] = "Redirect to official download page"

\* C27: download_os is never invoked with a URL that verify_download_link
\* accepted only as a redirect-only download page: for such a catalog entry
\* main() shows a link and nothing is written to an .iso file.
C27_RedirectPageIsNeverDownloaded ==
    RedirectOnly =>
        /\ op = "main"
        /\ dpc = "done" => result = [shown |-> "link"]
        /\ io = NoIo

====
